---- MODULE Spec2Model ----
(***************************************************************************)
(* Model of rate-limiter-cpp/server.cc: the TokenBucket class and the      *)
(* RateLimiterServiceImpl gRPC service (Allow, Status, Configure) run by   *)
(* concurrent server threads.                                              *)
(*                                                                         *)
(* Units.  The steady clock is read in whole milliseconds.  Token          *)
(* quantities (tokens_, bucket_capacity_, quota_remaining, ...) are C++    *)
(* doubles; they are kept here in fixed point, 1/1000 of a token, so that  *)
(* elapsed_ms * refill_rate_ is the exact refill of server.cc:76-77 for    *)
(* the integral rates the requests draw from.                              *)
(***************************************************************************)
EXTENDS Integers, Sequences, FiniteSets, TLC

\* ------------------------------------------------------------ bounds
MaxCalls == 3            \* RPCs started in one behaviour
MaxNow == 334            \* the clock stops advancing here (ms)
MaxQuiet == 667          \* the same for the quiet interval of QuietSpec (ms)

Threads == {1, 2}        \* gRPC server threads
TickSteps == {333, 334}  \* clock advances (ms)
Keys == {"flags_list", "flag_write", "k1"}
ReqKeys == {"flag_write", "k1"}   \* keys the requests name
Costs == {0, 1, 2}       \* AllowRequest.token_cost
ReqRates == {0, 3}       \* ConfigureRequest.refill_rate
ReqCaps == {0, 1}        \* ConfigureRequest.bucket_capacity

\* ------------------------------------------------- program constants
MsPerSec == 1000         \* seconds_to_wait * 1000; also the token fixed point
DefaultRate == 20
DefaultCapacity == 50
FlagsListRate == 10
FlagsListCapacity == 100
FlagWriteRate == 5
FlagWriteCapacity == 50

NoThread == 0            \* an unlocked std::mutex
NoBucket == 0            \* an empty shared_ptr / a key not in the map
\* Addresses for TokenBucket objects: one per key, one more that each thread
\* may still hold after a Configure replaced it, one being constructed.
Addresses == 1 .. (Cardinality(Keys) + Cardinality(Threads) + 1)
NoReq == [op |-> "none"]
NoResp == [op |-> "none"]

Min(a, b) == IF b < a THEN b ELSE a

\* A double that is not a number, as a ConfigureRequest can carry one in
\* refill_rate.  It stands apart from the numbers the requests draw from, and
\* every comparison with it is false.
NaN == -1
LessEqual(x, y) == x # NaN /\ y # NaN /\ x <= y
Greater(x, y) == x # NaN /\ y # NaN /\ x > y

\* Memory holding no TokenBucket.
Free ==
  [refill_rate_ |-> 0, bucket_capacity_ |-> 0, tokens_ |-> 0,
   last_refill_ |-> 0, mutex_ |-> NoThread, live |-> FALSE]

\* std::make_shared: where the new object goes.
Alloc(hp) == CHOOSE b \in Addresses : ~hp[b].live /\ \A c \in Addresses : c < b => hp[c].live

\* A map of plain pointers: the bucket the map lets go of is destroyed, whoever
\* still holds it.
Release_Unshared(hp, map, lim) ==
  [b \in Addresses |-> IF \E k \in Keys : map[k] = b THEN hp[b] ELSE Free]

\* shared_ptr's reference count reaching zero: a bucket that neither the map
\* nor a thread's local handle refers to is destroyed.
Release(hp, map, lim) ==
  [b \in Addresses |->
     IF (\E k \in Keys : map[k] = b) \/ (\E t \in Threads : lim[t] = b)
       THEN hp[b] ELSE Free]

VARIABLES
  now,            \* std::chrono::steady_clock::now(), ms
  rate_limiters_, \* RateLimiterServiceImpl::rate_limiters_: key -> bucket
  mutex_,         \* RateLimiterServiceImpl::mutex_: the thread holding it
  heap,           \* the TokenBucket objects made so far, by address
  pc,             \* each thread's position in its handler
  req,            \* each thread's request
  limiter,        \* each thread's local shared_ptr<TokenBucket>
  resp,           \* each thread's response, filled as the handler runs
  created,        \* whether the thread's get_or_create_limiter made the bucket
  calls,          \* RPCs started so far
  obs             \* per bucket: what has been observed of it (history)

vars == <<now, rate_limiters_, mutex_, heap, pc, req, limiter, resp, created,
          calls, obs>>

\* ---------------------------------------------------------- TokenBucket

\* TokenBucket::TokenBucket: a full bucket, last_refill_ = now.
\* refill_rate is in tokens per second, bucket_capacity in whole tokens.
TokenBucket(refill_rate, bucket_capacity, t) ==
  [refill_rate_     |-> refill_rate,
   bucket_capacity_ |-> bucket_capacity * MsPerSec,
   tokens_          |-> bucket_capacity * MsPerSec,
   last_refill_     |-> t,
   mutex_           |-> NoThread,
   live             |-> TRUE]

\* A refill that forgets the cap of std::min.
refill_NoCap(bk, t) ==
  LET new_tokens == (t - bk.last_refill_) * bk.refill_rate_
  IN IF new_tokens > 0
       THEN [bk EXCEPT !.tokens_ = bk.tokens_ + new_tokens, !.last_refill_ = t]
       ELSE bk

\* A refill that forgets line 81: the tokens are added and last_refill_ stays.
refill_NoStamp(bk, t) ==
  LET new_tokens == (t - bk.last_refill_) * bk.refill_rate_
  IN IF new_tokens > 0
       THEN [bk EXCEPT !.tokens_ = Min(bk.bucket_capacity_, bk.tokens_ + new_tokens)]
       ELSE bk

\* TokenBucket::refill, at clock reading t.
refill(bk, t) ==
  LET elapsed_ms == t - bk.last_refill_
      new_tokens == IF bk.refill_rate_ = NaN THEN NaN
                    ELSE elapsed_ms * bk.refill_rate_
  IN IF Greater(new_tokens, 0)
       THEN [bk EXCEPT !.tokens_ = Min(bk.bucket_capacity_, bk.tokens_ + new_tokens),
                       !.last_refill_ = t]
       ELSE bk

\* The rejection branch of allow, shared by the variants below.
Rejection(r, cost) ==
  [bucket |-> r, ret |-> FALSE,
   retry_after_ms |-> (cost - r.tokens_) \div r.refill_rate_,
   remaining |-> r.tokens_]

\* An allow whose subtraction is lost (tokens_ is not written back).
allow_NoSubtract(bk, token_cost, t) ==
  LET c == refill(bk, t)
      cost == token_cost * MsPerSec
  IN IF c.tokens_ >= cost
       THEN [bucket |-> c, ret |-> TRUE, retry_after_ms |-> 0,
             remaining |-> c.tokens_ - cost]
       ELSE Rejection(c, cost)

\* An allow that compares with > where the code has >=.
allow_Strict(bk, token_cost, t) ==
  LET c == refill(bk, t)
      cost == token_cost * MsPerSec
  IN IF c.tokens_ > cost
       THEN [bucket |-> [c EXCEPT !.tokens_ = c.tokens_ - cost], ret |-> TRUE,
             retry_after_ms |-> 0, remaining |-> c.tokens_ - cost]
       ELSE Rejection(c, cost)

\* An allow that hands a rejected request the tokens that are there.
allow_Partial(bk, token_cost, t) ==
  LET c == refill(bk, t)
      cost == token_cost * MsPerSec
  IN IF c.tokens_ >= cost
       THEN [bucket |-> [c EXCEPT !.tokens_ = c.tokens_ - cost], ret |-> TRUE,
             retry_after_ms |-> 0, remaining |-> c.tokens_ - cost]
       ELSE [Rejection(c, cost) EXCEPT !.bucket = [c EXCEPT !.tokens_ = 0]]

\* TokenBucket::allow without its lock_guard: the bucket afterwards, the
\* returned bool and the two out-parameters.  token_cost is in whole tokens.
allow(bk, token_cost, t) ==
  LET r == refill(bk, t)
      cost == token_cost * MsPerSec
  IN IF r.tokens_ >= cost
       THEN [bucket |-> [r EXCEPT !.tokens_ = r.tokens_ - cost],
             ret |-> TRUE,
             retry_after_ms |-> 0,
             remaining |-> r.tokens_ - cost]
       ELSE LET missing_tokens == cost - r.tokens_
                \* seconds_to_wait * 1000, truncated by static_cast<int64_t>
                wait_ms == missing_tokens \div r.refill_rate_
            IN [bucket |-> r,
                ret |-> FALSE,
                retry_after_ms |-> wait_ms,
                remaining |-> r.tokens_]

\* TokenBucket::get_tokens without its lock_guard.
get_tokens(bk, t) ==
  LET r == refill(bk, t) IN [bucket |-> r, ret |-> r.tokens_]

\* TokenBucket::get_last_refill_ms: an unlocked read of last_refill_.
get_last_refill_ms(bk, t) == t - bk.last_refill_

\* ------------------------------------------------------------- registry

\* A validation that rejects only when both values are bad.
InvalidConfiguration_And(refill_rate, bucket_capacity) ==
  refill_rate <= 0 /\ bucket_capacity <= 0

\* The validation of Configure.
InvalidConfiguration(refill_rate, bucket_capacity) ==
  LessEqual(refill_rate, 0) \/ LessEqual(bucket_capacity, 0)

\* A get_or_create_limiter that forgets line 180: the new bucket is returned
\* and never stored in the map.
get_or_create_limiter_NoInsert(map, hp, key, t) ==
  IF map[key] # NoBucket
    THEN [map |-> map, heap |-> hp, ret |-> map[key], created |-> FALSE]
    ELSE [map |-> map,
          heap |-> [hp EXCEPT ![Alloc(hp)] = TokenBucket(DefaultRate, DefaultCapacity, t)],
          ret |-> Alloc(hp),
          created |-> TRUE]

\* A get_or_create_limiter without the find of lines 173-176.
get_or_create_limiter_AlwaysCreate(map, hp, key, t) ==
  [map |-> [map EXCEPT ![key] = Alloc(hp)],
   heap |-> [hp EXCEPT ![Alloc(hp)] = TokenBucket(DefaultRate, DefaultCapacity, t)],
   ret |-> Alloc(hp),
   created |-> TRUE]

\* get_or_create_limiter without its lock_guard: the map and the heap
\* afterwards and the returned bucket.
get_or_create_limiter(map, hp, key, t) ==
  IF map[key] # NoBucket
    THEN [map |-> map, heap |-> hp, ret |-> map[key], created |-> FALSE]
    ELSE LET b == Alloc(hp)
         IN [map |-> [map EXCEPT ![key] = b],
             heap |-> [hp EXCEPT ![b] = TokenBucket(DefaultRate, DefaultCapacity, t)],
             ret |-> b,
             created |-> TRUE]

\* A Configure that inserts only when the key is absent (emplace).
configure_insert_Emplace(map, hp, key, refill_rate, bucket_capacity, t) ==
  IF map[key] # NoBucket
    THEN [map |-> map, heap |-> hp, ret |-> map[key]]
    ELSE [map |-> [map EXCEPT ![key] = Alloc(hp)],
          heap |-> [hp EXCEPT ![Alloc(hp)] = TokenBucket(refill_rate, bucket_capacity, t)],
          ret |-> Alloc(hp)]

\* A Configure that rebuilds the map around the configured key: the other
\* keys lose their entries.
configure_insert_Clear(map, hp, key, refill_rate, bucket_capacity, t) ==
  LET b == Alloc(hp)
  IN [map |-> [k \in Keys |-> IF k = key THEN b ELSE NoBucket],
      heap |-> [hp EXCEPT ![b] = TokenBucket(refill_rate, bucket_capacity, t)],
      ret |-> b]

\* rate_limiters_[key] = make_shared<TokenBucket>(rate, capacity)
configure_insert(map, hp, key, refill_rate, bucket_capacity, t) ==
  LET b == Alloc(hp)
  IN [map |-> [map EXCEPT ![key] = b],
      heap |-> [hp EXCEPT ![b] = TokenBucket(refill_rate, bucket_capacity, t)],
      ret |-> b]

\* ---------------------------------------------------------- observation

\* What is recorded of a bucket when it is made: the key and the path that
\* made it, and nothing yet of the decisions taken on it.
NoReject == [cost |-> 0, retry_after_ms |-> 0, remaining |-> 0, at |-> -1]
Born(key, origin, refill_rate, bucket_capacity, t) ==
  [key |-> key, origin |-> origin, rate |-> refill_rate, cap |-> bucket_capacity,
   born |-> t, decided |-> FALSE,
   win_at |-> -1, win_tokens |-> 0, win_granted |-> 0, win_denied |-> 0,
   win_unit |-> TRUE, win_overlap |-> FALSE,
   reject |-> NoReject]

NoObs == Born("", "none", 0, 0, -1)

\* What stays recorded of the live buckets only.
Observed(o, hp) == [b \in Addresses |-> IF hp[b].live THEN o[b] ELSE NoObs]

\* The clock moved: the bucket's window of same-instant decisions ends.
Closed(o) ==
  [o EXCEPT !.win_at = -1, !.win_tokens = 0, !.win_granted = 0,
            !.win_denied = 0, !.win_unit = TRUE, !.win_overlap = FALSE]

\* The record of bucket b after a decision of cost token_cost at time t that
\* found post tokens after the refill and answered a.  A window is the run of
\* decisions taken on the bucket at one clock reading.
Decided(o, token_cost, t, post, a, overlap) ==
  LET fresh == o.win_at # t
      g == IF fresh THEN 0 ELSE o.win_granted
      d == IF fresh THEN 0 ELSE o.win_denied
      u == IF fresh THEN TRUE ELSE o.win_unit
      v == IF fresh THEN FALSE ELSE o.win_overlap
  IN [o EXCEPT !.decided = TRUE,
               !.win_at = t,
               !.win_tokens = IF fresh THEN post ELSE o.win_tokens,
               !.win_granted = IF a.ret THEN g + 1 ELSE g,
               !.win_denied = IF a.ret THEN d ELSE d + 1,
               !.win_unit = u /\ token_cost = 1,
               !.win_overlap = v \/ overlap,
               !.reject = IF a.ret THEN NoReject
                          ELSE [cost |-> token_cost,
                                retry_after_ms |-> a.retry_after_ms,
                                remaining |-> a.remaining,
                                at |-> t]]

\* ----------------------------------------------------------------- Init

\* RateLimiterServiceImpl::RateLimiterServiceImpl: two seeded limiters.
Init ==
  /\ now = 0
  /\ heap = [b \in Addresses |->
              IF b = 1 THEN TokenBucket(FlagsListRate, FlagsListCapacity, 0)
              ELSE IF b = 2 THEN TokenBucket(FlagWriteRate, FlagWriteCapacity, 0)
              ELSE Free]
  /\ rate_limiters_ = [k \in Keys |->
                         IF k = "flags_list" THEN 1
                         ELSE IF k = "flag_write" THEN 2 ELSE NoBucket]
  /\ obs = [b \in Addresses |->
             IF b = 1 THEN Born("flags_list", "seed", FlagsListRate, FlagsListCapacity, 0)
             ELSE IF b = 2 THEN Born("flag_write", "seed", FlagWriteRate, FlagWriteCapacity, 0)
             ELSE NoObs]
  /\ mutex_ = NoThread
  /\ pc = [t \in Threads |-> "idle"]
  /\ req = [t \in Threads |-> NoReq]
  /\ limiter = [t \in Threads |-> NoBucket]
  /\ resp = [t \in Threads |-> NoResp]
  /\ created = [t \in Threads |-> FALSE]
  /\ calls = 0

\* -------------------------------------------------------------- actions

\* The steady clock advances.
Tick ==
  /\ \E d \in TickSteps : now + d <= MaxNow /\ now' = now + d
  /\ obs' = [b \in Addresses |-> Closed(obs[b])]
  /\ UNCHANGED <<rate_limiters_, mutex_, heap, pc, req, limiter, resp, calls, created>>

\* An Allow that passes the cost on as it was sent.
TokenCost_AsSent(cost) == cost

\* Allow, lines 105-106: the cost the bucket is asked for; 0 becomes 1.
TokenCost(cost) == IF cost = 0 THEN 1 ELSE cost

\* Allow, lines 104-106: read the request; a cost of 0 becomes 1.
AllowEntry(t) ==
  /\ pc[t] = "idle" /\ calls < MaxCalls
  /\ \E key \in ReqKeys, c \in Costs :
       req' = [req EXCEPT ![t] = [op |-> "Allow", key |-> key, cost |-> c,
                                  token_cost |-> TokenCost(c)]]
  /\ pc' = [pc EXCEPT ![t] = "resolve"]
  /\ calls' = calls + 1
  /\ UNCHANGED <<now, rate_limiters_, mutex_, heap, limiter, resp, obs, created>>

\* Status, line 128.
StatusEntry(t) ==
  /\ pc[t] = "idle" /\ calls < MaxCalls
  /\ \E key \in ReqKeys :
       req' = [req EXCEPT ![t] = [op |-> "Status", key |-> key]]
  /\ pc' = [pc EXCEPT ![t] = "resolve"]
  /\ calls' = calls + 1
  /\ UNCHANGED <<now, rate_limiters_, mutex_, heap, limiter, resp, obs, created>>

\* get_or_create_limiter, line 171: take the registry mutex.
LockRegistry(t) ==
  /\ pc[t] = "resolve" /\ mutex_ = NoThread
  /\ mutex_' = t
  /\ pc' = [pc EXCEPT ![t] = "resolving"]
  /\ UNCHANGED <<now, rate_limiters_, heap, req, limiter, resp, calls, obs, created>>

\* A get_or_create_limiter whose lock_guard outlives it: the handler goes on
\* to the bucket with the registry mutex still held.
Resolve_KeepLock(t) ==
  /\ pc[t] = "resolving" /\ mutex_ = t
  /\ LET g == get_or_create_limiter(rate_limiters_, heap, req[t].key, now)
     IN /\ rate_limiters_' = g.map
        /\ heap' = g.heap
        /\ limiter' = [limiter EXCEPT ![t] = g.ret]
        /\ obs' = IF g.created
                    THEN [obs EXCEPT ![g.ret] = Born(req[t].key, "default", DefaultRate,
                                                     DefaultCapacity, now)]
                    ELSE obs
        /\ created' = [created EXCEPT ![t] = g.created]
  /\ pc' = [pc EXCEPT ![t] = IF req[t].op = "Allow" THEN "allow" ELSE "tokens"]
  /\ UNCHANGED <<now, mutex_, req, resp, calls>>

\* get_or_create_limiter, lines 173-182, and the release of the mutex.
Resolve(t) ==
  /\ pc[t] = "resolving" /\ mutex_ = t
  /\ LET g == get_or_create_limiter(rate_limiters_, heap, req[t].key, now)
     IN /\ rate_limiters_' = g.map
        /\ heap' = g.heap
        /\ limiter' = [limiter EXCEPT ![t] = g.ret]
        /\ obs' = IF g.created
                    THEN [obs EXCEPT ![g.ret] = Born(req[t].key, "default", DefaultRate,
                                                     DefaultCapacity, now)]
                    ELSE obs
        /\ created' = [created EXCEPT ![t] = g.created]
  /\ mutex_' = NoThread
  /\ pc' = [pc EXCEPT ![t] = IF req[t].op = "Allow" THEN "allow" ELSE "tokens"]
  /\ UNCHANGED <<now, req, resp, calls>>

\* TokenBucket::allow, line 32: take the bucket's mutex.
AllowLock(t) ==
  /\ pc[t] = "allow" /\ heap[limiter[t]].mutex_ = NoThread
  /\ heap' = [heap EXCEPT ![limiter[t]].mutex_ = t]
  /\ pc' = [pc EXCEPT ![t] = "allowing"]
  /\ UNCHANGED <<now, rate_limiters_, mutex_, req, limiter, resp, calls, obs, created>>

\* TokenBucket::allow, lines 35-50, then Allow, lines 115-123.
AllowBody(t) ==
  /\ pc[t] = "allowing"
  /\ LET b == limiter[t]
         a == allow(heap[b], req[t].token_cost, now)
         overlap == \E u \in Threads \ {t} :
                      limiter[u] = b /\ pc[u] \in {"allow", "allowing"}
     IN /\ heap' = [heap EXCEPT ![b] = [a.bucket EXCEPT !.mutex_ = NoThread]]
        /\ resp' = [resp EXCEPT ![t] = [op |-> "Allow",
                                        allowed |-> a.ret,
                                        retry_after_ms |-> a.retry_after_ms,
                                        quota_remaining |-> a.remaining]]
        /\ obs' = [obs EXCEPT ![b] = Decided(obs[b], req[t].token_cost, now,
                                             refill(heap[b], now).tokens_, a, overlap)]
  /\ pc' = [pc EXCEPT ![t] = "done"]
  /\ UNCHANGED <<now, rate_limiters_, mutex_, req, limiter, calls, created>>

\* TokenBucket::get_tokens, line 54, called from Status line 132.
StatusLock(t) ==
  /\ pc[t] = "tokens" /\ heap[limiter[t]].mutex_ = NoThread
  /\ heap' = [heap EXCEPT ![limiter[t]].mutex_ = t]
  /\ pc' = [pc EXCEPT ![t] = "tokens_locked"]
  /\ UNCHANGED <<now, rate_limiters_, mutex_, req, limiter, resp, calls, obs, created>>

\* TokenBucket::get_tokens, lines 55-56; Status, lines 131-132.
StatusGetTokens(t) ==
  /\ pc[t] = "tokens_locked"
  /\ LET b == limiter[t]
         g == get_tokens(heap[b], now)
     IN /\ heap' = [heap EXCEPT ![b] = [g.bucket EXCEPT !.mutex_ = NoThread]]
        /\ resp' = [resp EXCEPT ![t] = [op |-> "Status",
                                        key |-> req[t].key,
                                        tokens_remaining |-> g.ret]]
  /\ pc' = [pc EXCEPT ![t] = "last_refill"]
  /\ UNCHANGED <<now, rate_limiters_, mutex_, req, limiter, calls, obs, created>>

\* What a read of last_refill_ outside the mutex can return.  While another
\* thread is inside refill() on the bucket and is about to store last_refill_
\* the read races with the store: the value is then the old instant, the new
\* one, or neither.
LastRefillReads(b, t) ==
  LET racing == \E u \in Threads \ {t} :
                  /\ heap[b].mutex_ = u
                  /\ (now - heap[b].last_refill_) * heap[b].refill_rate_ > 0
  IN IF racing
       THEN {get_last_refill_ms(heap[b], now), 0, -1}
       ELSE {get_last_refill_ms(heap[b], now)}

\* Status, lines 133-135: the two const getters and get_last_refill_ms.
StatusGetLastRefill(t) ==
  /\ pc[t] = "last_refill"
  /\ \E ms \in LastRefillReads(limiter[t], t) :
       resp' = [resp EXCEPT ![t] =
                  [op |-> "Status",
                   key |-> resp[t].key,
                   tokens_remaining |-> resp[t].tokens_remaining,
                   refill_rate |-> heap[limiter[t]].refill_rate_,
                   bucket_capacity |-> heap[limiter[t]].bucket_capacity_,
                   last_refill_time_ms |-> ms]]
  /\ pc' = [pc EXCEPT ![t] = "log"]
  /\ UNCHANGED <<now, rate_limiters_, mutex_, heap, req, limiter, calls, obs, created>>

\* Status, line 138: the log line calls get_tokens again; its lock.
StatusLogLock(t) ==
  /\ pc[t] = "log" /\ heap[limiter[t]].mutex_ = NoThread
  /\ heap' = [heap EXCEPT ![limiter[t]].mutex_ = t]
  /\ pc' = [pc EXCEPT ![t] = "log_locked"]
  /\ UNCHANGED <<now, rate_limiters_, mutex_, req, limiter, resp, calls, obs, created>>

\* Status, lines 137-140: the second get_tokens, then return.
StatusLog(t) ==
  /\ pc[t] = "log_locked"
  /\ LET b == limiter[t]
         g == get_tokens(heap[b], now)
     IN heap' = [heap EXCEPT ![b] = [g.bucket EXCEPT !.mutex_ = NoThread]]
  /\ pc' = [pc EXCEPT ![t] = "done"]
  /\ UNCHANGED <<now, rate_limiters_, mutex_, req, limiter, resp, calls, obs, created>>

\* Configure, lines 145-153: read the request and validate it.
ConfigureEntry(t) ==
  /\ pc[t] = "idle" /\ calls < MaxCalls
  /\ \E key \in ReqKeys, r \in ReqRates, c \in ReqCaps :
       /\ req' = [req EXCEPT ![t] = [op |-> "Configure", key |-> key,
                                     refill_rate |-> r, bucket_capacity |-> c]]
       /\ IF InvalidConfiguration(r, c)
            THEN /\ resp' = [resp EXCEPT ![t] = [op |-> "Configure",
                                                 success |-> FALSE]]
                 /\ pc' = [pc EXCEPT ![t] = "done"]
            ELSE /\ resp' = [resp EXCEPT ![t] = NoResp]
                 /\ pc' = [pc EXCEPT ![t] = "configure"]
  /\ calls' = calls + 1
  /\ UNCHANGED <<now, rate_limiters_, mutex_, heap, limiter, obs, created>>

\* Configure, lines 145-153, for a request whose refill_rate is not a number.
ConfigureEntryNaN(t) ==
  /\ pc[t] = "idle" /\ calls < MaxCalls
  /\ \E key \in ReqKeys, c \in ReqCaps :
       /\ req' = [req EXCEPT ![t] = [op |-> "Configure", key |-> key,
                                     refill_rate |-> NaN, bucket_capacity |-> c]]
       /\ IF InvalidConfiguration(NaN, c)
            THEN /\ resp' = [resp EXCEPT ![t] = [op |-> "Configure",
                                                 success |-> FALSE]]
                 /\ pc' = [pc EXCEPT ![t] = "done"]
            ELSE /\ resp' = [resp EXCEPT ![t] = NoResp]
                 /\ pc' = [pc EXCEPT ![t] = "configure"]
  /\ calls' = calls + 1
  /\ UNCHANGED <<now, rate_limiters_, mutex_, heap, limiter, obs, created>>

\* Configure, line 156: take the registry mutex.
ConfigureLock(t) ==
  /\ pc[t] = "configure" /\ mutex_ = NoThread
  /\ mutex_' = t
  /\ pc' = [pc EXCEPT ![t] = "configuring"]
  /\ UNCHANGED <<now, rate_limiters_, heap, req, limiter, resp, calls, obs, created>>

\* Configure, lines 157-166: replace the entry, release, answer.
ConfigureInsert(t) ==
  /\ pc[t] = "configuring" /\ mutex_ = t
  /\ LET c == configure_insert(rate_limiters_, heap, req[t].key,
                               req[t].refill_rate, req[t].bucket_capacity, now)
     IN /\ rate_limiters_' = c.map
        /\ heap' = Release(c.heap, c.map, limiter)
        /\ obs' = Observed([obs EXCEPT ![c.ret] =
                                    Born(req[t].key, "configure", req[t].refill_rate,
                                         req[t].bucket_capacity, now)],
                            heap')
  /\ mutex_' = NoThread
  /\ resp' = [resp EXCEPT ![t] = [op |-> "Configure", success |-> TRUE]]
  /\ pc' = [pc EXCEPT ![t] = "done"]
  /\ UNCHANGED <<now, req, limiter, calls, created>>

\* return Status::OK: the response leaves and the handler's locals die.
Return(t) ==
  /\ pc[t] = "done"
  /\ pc' = [pc EXCEPT ![t] = "idle"]
  /\ req' = [req EXCEPT ![t] = NoReq]
  /\ resp' = [resp EXCEPT ![t] = NoResp]
  /\ limiter' = [limiter EXCEPT ![t] = NoBucket]
  /\ created' = [created EXCEPT ![t] = FALSE]
  /\ heap' = Release(heap, rate_limiters_, limiter')
  /\ obs' = Observed(obs, heap')
  /\ UNCHANGED <<now, rate_limiters_, mutex_, calls>>

Next ==
  \/ Tick
  \/ \E t \in Threads : AllowEntry(t)
  \/ \E t \in Threads : StatusEntry(t)
  \/ \E t \in Threads : ConfigureEntry(t)
  \/ \E t \in Threads : LockRegistry(t)
  \/ \E t \in Threads : Resolve(t)
  \/ \E t \in Threads : AllowLock(t)
  \/ \E t \in Threads : AllowBody(t)
  \/ \E t \in Threads : StatusLock(t)
  \/ \E t \in Threads : StatusGetTokens(t)
  \/ \E t \in Threads : StatusGetLastRefill(t)
  \/ \E t \in Threads : StatusLogLock(t)
  \/ \E t \in Threads : StatusLog(t)
  \/ \E t \in Threads : ConfigureLock(t)
  \/ \E t \in Threads : ConfigureInsert(t)
  \/ \E t \in Threads : Return(t)

Spec == Init /\ [][Next]_vars

\* The steps of thread t inside a handler it has entered.
ThreadStep(t) ==
  \/ LockRegistry(t) \/ Resolve(t)
  \/ AllowLock(t) \/ AllowBody(t)
  \/ StatusLock(t) \/ StatusGetTokens(t) \/ StatusGetLastRefill(t)
  \/ StatusLogLock(t) \/ StatusLog(t)
  \/ ConfigureLock(t) \/ ConfigureInsert(t)
  \/ Return(t)

\* The service on threads the scheduler does not abandon: a thread that can
\* take its next step, and stays able to, takes it.  A thread waiting for a
\* std::mutex can take its step whenever the mutex is free.
FairSpec == Spec /\ \A t \in Threads : WF_vars(ThreadStep(t))

\* The service when describes and configures are called and a configure may
\* carry a refill_rate that is not a number.
NaNNext ==
  \/ Tick
  \/ \E t \in Threads : StatusEntry(t)
  \/ \E t \in Threads : ConfigureEntry(t)
  \/ \E t \in Threads : ConfigureEntryNaN(t)
  \/ \E t \in Threads : LockRegistry(t)
  \/ \E t \in Threads : Resolve(t)
  \/ \E t \in Threads : StatusLock(t)
  \/ \E t \in Threads : StatusGetTokens(t)
  \/ \E t \in Threads : StatusGetLastRefill(t)
  \/ \E t \in Threads : StatusLogLock(t)
  \/ \E t \in Threads : StatusLog(t)
  \/ \E t \in Threads : ConfigureLock(t)
  \/ \E t \in Threads : ConfigureInsert(t)
  \/ \E t \in Threads : Return(t)

NaNSpec == Init /\ [][NaNNext]_vars

\* ------------------------------------------------------- quiet interval

\* The buckets at the start of an interval in which nothing is consumed and
\* nothing configured.  Before it, at clock reading 0, flag_write was asked
\* twice for 2 tokens, and k1 was configured with rate 3 and capacity 1 and
\* asked for its one token.
QuietHeap ==
  [b \in Addresses |->
     IF b = 1 THEN TokenBucket(FlagsListRate, FlagsListCapacity, 0)
     ELSE IF b = 2
       THEN allow(allow(TokenBucket(FlagWriteRate, FlagWriteCapacity, 0), 2, 0).bucket,
                  2, 0).bucket
     ELSE IF b = 3 THEN allow(TokenBucket(3, 1, 0), 1, 0).bucket
     ELSE Free]

\* The service at the start of the quiet interval: all handlers have
\* returned; calls counts the RPCs of the interval.
QuietInit ==
  /\ now = 0
  /\ heap = QuietHeap
  /\ rate_limiters_ = [k \in Keys |->
                         IF k = "flags_list" THEN 1
                         ELSE IF k = "flag_write" THEN 2 ELSE 3]
  /\ obs = [b \in Addresses |->
             IF b = 1 THEN Born("flags_list", "seed", FlagsListRate, FlagsListCapacity, 0)
             ELSE IF b = 2
               THEN LET b0 == TokenBucket(FlagWriteRate, FlagWriteCapacity, 0)
                        a1 == allow(b0, 2, 0)
                        a2 == allow(a1.bucket, 2, 0)
                        o0 == Born("flag_write", "seed", FlagWriteRate,
                                   FlagWriteCapacity, 0)
                        o1 == Decided(o0, 2, 0, b0.tokens_, a1, FALSE)
                    IN Decided(o1, 2, 0, a1.bucket.tokens_, a2, FALSE)
             ELSE IF b = 3
               THEN LET b0 == TokenBucket(3, 1, 0)
                    IN Decided(Born("k1", "configure", 3, 1, 0), 1, 0, b0.tokens_,
                               allow(b0, 1, 0), FALSE)
             ELSE NoObs]
  /\ mutex_ = NoThread
  /\ pc = [t \in Threads |-> "idle"]
  /\ req = [t \in Threads |-> NoReq]
  /\ limiter = [t \in Threads |-> NoBucket]
  /\ resp = [t \in Threads |-> NoResp]
  /\ created = [t \in Threads |-> FALSE]
  /\ calls = 0

\* The steady clock advances during the quiet interval.
QuietTick ==
  /\ \E d \in TickSteps : now + d <= MaxQuiet /\ now' = now + d
  /\ obs' = [b \in Addresses |-> Closed(obs[b])]
  /\ UNCHANGED <<rate_limiters_, mutex_, heap, pc, req, limiter, resp, calls, created>>

\* Allow, lines 104-106, for the requests the quiet interval admits: k1 is
\* asked for 2 tokens, more than its bucket can hold.
QuietAllowEntry(t) ==
  /\ pc[t] = "idle" /\ calls < MaxCalls
  /\ req' = [req EXCEPT ![t] = [op |-> "Allow", key |-> "k1", cost |-> 2,
                                token_cost |-> TokenCost(2)]]
  /\ pc' = [pc EXCEPT ![t] = "resolve"]
  /\ calls' = calls + 1
  /\ UNCHANGED <<now, rate_limiters_, mutex_, heap, limiter, resp, obs, created>>

QuietNext ==
  \/ QuietTick
  \/ \E t \in Threads : QuietAllowEntry(t)
  \/ \E t \in Threads : StatusEntry(t)
  \/ \E t \in Threads : LockRegistry(t)
  \/ \E t \in Threads : Resolve(t)
  \/ \E t \in Threads : AllowLock(t)
  \/ \E t \in Threads : AllowBody(t)
  \/ \E t \in Threads : StatusLock(t)
  \/ \E t \in Threads : StatusGetTokens(t)
  \/ \E t \in Threads : StatusGetLastRefill(t)
  \/ \E t \in Threads : StatusLogLock(t)
  \/ \E t \in Threads : StatusLog(t)
  \/ \E t \in Threads : Return(t)

\* The service during an interval without allowed decides and configures.
QuietSpec == QuietInit /\ [][QuietNext]_vars

\* ------------------------------------------------------------ properties

Live == {b \in Addresses : heap[b].live}

\* The token count the spec's refill step leaves: min(capacity, tokens +
\* elapsed * refill_rate), at the current clock reading.
PostRefill(bk) ==
  Min(bk.bucket_capacity_, bk.tokens_ + (now - bk.last_refill_) * bk.refill_rate_)

CeilDiv(a, b) == (a + b - 1) \div b

\* The step in which thread t runs the body of TokenBucket::allow.
AllowStep(t) == pc[t] = "allowing" /\ pc'[t] = "done"
\* The step in which thread t's Status runs its first get_tokens.
GetTokensStep(t) == pc[t] = "tokens_locked" /\ pc'[t] = "last_refill"
\* The step in which thread t's Status reads rate, capacity and last refill.
GetLastRefillStep(t) == pc[t] = "last_refill" /\ pc'[t] = "log"
\* The step in which thread t's get_or_create_limiter returns.
ResolveStep(t) == pc[t] = "resolving" /\ pc'[t] \in {"allow", "tokens"}

\* C1 (no double-spend): of the cost-1 decisions taken on one bucket at one
\* clock reading (so with no refill between them), starting from an integral
\* token count C, exactly min(N, C) of the N taken so far are allowed, in every
\* interleaving.
NoDoubleSpend ==
  \A b \in Live :
    LET o == obs[b] IN
    (o.win_at = now /\ o.win_unit /\ o.win_tokens % MsPerSec = 0)
      => o.win_granted = Min(o.win_granted + o.win_denied, o.win_tokens \div MsPerSec)

\* Two overlapping cost-1 decisions met a bucket holding one token: one was
\* allowed and one rejected.
NoDoubleSpendWitness ==
  \E b \in Live :
    /\ obs[b].win_at = now /\ obs[b].win_unit /\ obs[b].win_overlap
    /\ obs[b].win_tokens = MsPerSec
    /\ obs[b].win_granted = 1 /\ obs[b].win_denied = 1

\* C2: every bucket, mapped or only held by an operation in flight, has
\* 0 <= tokens <= capacity.
TokensInRange ==
  \A b \in Live : 0 <= heap[b].tokens_ /\ heap[b].tokens_ <= heap[b].bucket_capacity_

\* A thread holds a bucket that a Configure has replaced in the map, and that
\* bucket has been consumed from and partly refilled.
TokensInRangeWitness ==
  \E t \in Threads :
    /\ limiter[t] # NoBucket
    /\ rate_limiters_[req[t].key] # limiter[t]
    /\ heap[limiter[t]].tokens_ < heap[limiter[t]].bucket_capacity_
    /\ heap[limiter[t]].last_refill_ > obs[limiter[t]].born

\* C3: a decide of cost >= 1 is allowed exactly when the tokens after the
\* refill are >= cost; then tokens drop by exactly cost, retry_after is 0 and
\* the reported remaining is the count after the subtraction.
AllowDecision ==
  [][\A t \in Threads :
       (AllowStep(t) /\ req[t].cost >= 1) =>
         LET b == limiter[t]
             post == PostRefill(heap[b])
             cost == req[t].cost * MsPerSec
         IN /\ resp'[t].allowed = (post >= cost)
            /\ resp'[t].allowed =>
                 /\ heap'[b].tokens_ = post - cost
                 /\ resp'[t].retry_after_ms = 0
                 /\ resp'[t].quota_remaining = heap'[b].tokens_]_vars

\* A decide of cost 2 was allowed on a bucket that had been partly refilled.
AllowDecisionWitness ==
  \E t \in Threads :
    /\ pc[t] = "done" /\ resp[t].op = "Allow" /\ resp[t].allowed
    /\ req[t].cost = 2
    /\ resp[t].quota_remaining % MsPerSec # 0

\* C4: a rejected decide consumes nothing: the tokens are the post-refill
\* count, the reported remaining is that count, and a describe that reaches the
\* bucket at the same clock reading, with no allowed decide in between, reports
\* the same tokens_remaining.
RejectionPreservesTokens ==
  [][\A t \in Threads :
       /\ (AllowStep(t) /\ ~resp'[t].allowed) =>
            /\ heap'[limiter[t]].tokens_ = PostRefill(heap[limiter[t]])
            /\ resp'[t].quota_remaining = PostRefill(heap[limiter[t]])
       /\ (GetTokensStep(t) /\ obs[limiter[t]].reject.at = now) =>
            resp'[t].tokens_remaining = obs[limiter[t]].reject.remaining]_vars

\* A describe has just reported the tokens of a bucket on which a decide was
\* rejected at this clock reading while tokens were there.
RejectionPreservesTokensWitness ==
  \E t \in Threads :
    /\ pc[t] = "last_refill"
    /\ obs[limiter[t]].reject.at = now
    /\ obs[limiter[t]].reject.remaining > 0
    /\ resp[t].tokens_remaining = obs[limiter[t]].reject.remaining

\* C5: a rejected decide reports retry_after_ms = ceil((cost - t) / r * 1000)
\* for the post-refill token count t and the refill rate r.
RetryAfterIsCeiling ==
  [][\A t \in Threads :
       (AllowStep(t) /\ ~resp'[t].allowed) =>
         LET bk == heap[limiter[t]]
         IN resp'[t].retry_after_ms =
              CeilDiv(req[t].token_cost * MsPerSec - PostRefill(bk), bk.refill_rate_)]_vars

\* C6: once the retry_after_ms of a rejected decide(key, cost), cost <=
\* capacity, has elapsed with no other decide on the bucket and no configure
\* of the key, a decide(key, cost) is allowed.
RetryNeverEarly ==
  \A b \in Live :
    LET r == obs[b].reject IN
    (/\ r.at >= 0
     /\ rate_limiters_[obs[b].key] = b
     /\ r.cost * MsPerSec <= heap[b].bucket_capacity_
     /\ now >= r.at + r.retry_after_ms)
      => allow(heap[b], r.cost, now).ret

\* C7: a describe that reaches, at the clock reading of a successful
\* configure(key, rate, cap) and before any decide on the new bucket, the
\* bucket that configure left mapped to key reports tokens_remaining = cap,
\* refill_rate = rate and capacity = cap.
ConfigureResets ==
  [][\A t \in Threads :
       LET b == limiter[t]
           fresh == /\ req[t].op = "Status"
                    /\ b = rate_limiters_[req[t].key]
                    /\ obs[b].origin = "configure" /\ obs[b].key = req[t].key
                    /\ obs[b].born = now /\ ~obs[b].decided
       IN /\ (GetTokensStep(t) /\ fresh) =>
               resp'[t].tokens_remaining = obs[b].cap * MsPerSec
          /\ (GetLastRefillStep(t) /\ fresh) =>
               /\ resp'[t].tokens_remaining = obs[b].cap * MsPerSec
               /\ resp'[t].refill_rate = obs[b].rate
               /\ resp'[t].bucket_capacity = obs[b].cap * MsPerSec]_vars

\* A describe of the seeded key flag_write (rate 5, capacity 50) has reported
\* the freshly configured bucket: one token, rate 3, capacity one.
ConfigureResetsWitness ==
  \E t \in Threads :
    /\ pc[t] = "log" /\ req[t].key = "flag_write"
    /\ obs[limiter[t]].origin = "configure" /\ obs[limiter[t]].born = now
    /\ resp[t].tokens_remaining = MsPerSec /\ resp[t].refill_rate = 3
    /\ resp[t].bucket_capacity = MsPerSec

\* C8: a configure with rate <= 0 or cap <= 0 answers success = false in one
\* step that changes neither the map nor any bucket.
InvalidConfigureNoMutation ==
  [][\A t \in Threads :
       (/\ pc[t] # pc'[t]
        /\ req'[t].op = "Configure"
        /\ (req'[t].refill_rate <= 0 \/ req'[t].bucket_capacity <= 0))
         => /\ pc[t] = "idle" /\ pc'[t] = "done"
            /\ resp'[t].success = FALSE
            /\ rate_limiters_' = rate_limiters_
            /\ heap' = heap]_vars

\* A configure of the absent key k1 with a good rate and capacity 0 was
\* refused, and k1 is still absent.
InvalidConfigureWitness ==
  \E t \in Threads :
    /\ pc[t] = "done" /\ req[t].op = "Configure" /\ req[t].key = "k1"
    /\ req[t].refill_rate > 0 /\ req[t].bucket_capacity <= 0
    /\ resp[t].success = FALSE
    /\ rate_limiters_["k1"] = NoBucket

\* C9 as stated: a decide(key, 1) that found key absent creates a full bucket
\* of rate 20 and capacity 50 and leaves it mapped to key, and is allowed with
\* remaining = 49.
DefaultCreationAsStated ==
  [][\A t \in Threads :
       /\ (ResolveStep(t) /\ created'[t]) =>
            LET b == limiter'[t]
            IN /\ heap'[b].refill_rate_ = 20
               /\ heap'[b].bucket_capacity_ = 50 * MsPerSec
               /\ heap'[b].tokens_ = 50 * MsPerSec
               /\ rate_limiters_'[req[t].key] = b
       /\ (AllowStep(t) /\ created[t] /\ req[t].cost = 1) =>
            /\ resp'[t].allowed
            /\ resp'[t].quota_remaining = 49 * MsPerSec]_vars

\* C9 amended: a decide(key, 1) that found key absent creates a full bucket of
\* rate 20 and capacity 50 and leaves it mapped to key, and is allowed with
\* remaining = 49 when no other decide was taken on the new bucket before it.
DefaultCreation ==
  [][\A t \in Threads :
       /\ (ResolveStep(t) /\ created'[t]) =>
            LET b == limiter'[t]
            IN /\ heap'[b].refill_rate_ = 20
               /\ heap'[b].bucket_capacity_ = 50 * MsPerSec
               /\ heap'[b].tokens_ = 50 * MsPerSec
               /\ rate_limiters_'[req[t].key] = b
       /\ (AllowStep(t) /\ created[t] /\ req[t].cost = 1
              /\ ~obs[limiter[t]].decided) =>
            /\ resp'[t].allowed
            /\ resp'[t].quota_remaining = 49 * MsPerSec]_vars

\* A decide of cost 1 created the bucket of k1 and was answered allowed with
\* 49 tokens remaining.
DefaultCreationWitness ==
  \E t \in Threads :
    /\ pc[t] = "done" /\ created[t] /\ req[t].op = "Allow" /\ req[t].cost = 1
    /\ resp[t].allowed /\ resp[t].quota_remaining = 49 * MsPerSec
    /\ rate_limiters_[req[t].key] = limiter[t]
    /\ heap[limiter[t]].tokens_ = 49 * MsPerSec

\* C10: while no configure has been applied to a key, all threads that have
\* resolved it hold the one bucket the map holds for it, and at most one
\* default-created bucket exists for the key.
OneBucketPerKey ==
  /\ \A t \in Threads :
       (/\ limiter[t] # NoBucket
        /\ obs[rate_limiters_[req[t].key]].origin # "configure")
         => limiter[t] = rate_limiters_[req[t].key]
  /\ \A k \in Keys :
       Cardinality({b \in Live : obs[b].key = k /\ obs[b].origin = "default"}) <= 1

\* Two threads in flight hold the same default bucket of k1: one made it, the
\* other found it.
OneBucketPerKeyWitness ==
  \E t \in Threads, u \in Threads :
    /\ t # u /\ limiter[t] # NoBucket /\ limiter[t] = limiter[u]
    /\ obs[limiter[t]].origin = "default"
    /\ created[t] /\ ~created[u]
    /\ pc[t] \in {"allow", "tokens"} /\ pc[u] \in {"allow", "tokens"}

\* The step in which thread t's Configure replaces the entry of its key.
ConfigureStep(t) == pc[t] = "configuring" /\ pc'[t] = "done"

\* C11: once a key has an entry, a resolve of the key returns that entry and
\* leaves the map as it is, and the bucket an existing key maps to changes
\* only in the step of a successful configure of that key.
NoDefaultOverwrite ==
  [][/\ \A t \in Threads :
          (ResolveStep(t) /\ rate_limiters_[req[t].key] # NoBucket) =>
            /\ rate_limiters_' = rate_limiters_
            /\ limiter'[t] = rate_limiters_[req[t].key]
            /\ ~created'[t]
     /\ \A k \in Keys :
          (rate_limiters_[k] # NoBucket /\ rate_limiters_'[k] # rate_limiters_[k]) =>
            \E t \in Threads : ConfigureStep(t) /\ req[t].key = k]_vars

\* A decide and a configure of the never-seen key k1 raced, the configure
\* took the registry first, and the decide's resolve then returned the
\* configured bucket, which is still the one mapped.
NoDefaultOverwriteWitness ==
  \E t \in Threads, u \in Threads :
    /\ t # u
    /\ req[t].op = "Allow" /\ req[t].key = "k1" /\ pc[t] = "allow" /\ ~created[t]
    /\ req[u].op = "Configure" /\ req[u].key = "k1" /\ pc[u] = "done"
    /\ resp[u].success
    /\ limiter[t] = rate_limiters_["k1"]
    /\ obs[limiter[t]].origin = "configure"

\* C12: a decide sent with cost 0 is answered, and leaves its bucket, exactly
\* as a decide of cost 1 taken on the same bucket at the same clock reading:
\* same allowed, retry_after_ms and quota_remaining, same tokens and last
\* refill.
ZeroCostIsOne ==
  [][\A t \in Threads :
       (AllowStep(t) /\ req[t].cost = 0) =>
         LET b == limiter[t]
             one == allow(heap[b], 1, now)
         IN /\ resp'[t].allowed = one.ret
            /\ resp'[t].retry_after_ms = one.retry_after_ms
            /\ resp'[t].quota_remaining = one.remaining
            /\ heap'[b].tokens_ = one.bucket.tokens_
            /\ heap'[b].last_refill_ = one.bucket.last_refill_
            /\ \A c \in Addresses \ {b} : heap'[c] = heap[c]
            /\ rate_limiters_' = rate_limiters_]_vars

\* A decide sent with cost 0 met the configured bucket of one token and was
\* allowed, leaving none; the next one would be rejected.
ZeroCostIsOneWitness ==
  \E t \in Threads :
    /\ pc[t] = "done" /\ req[t].op = "Allow" /\ req[t].cost = 0
    /\ resp[t].allowed /\ resp[t].quota_remaining = 0
    /\ heap[limiter[t]].bucket_capacity_ = MsPerSec
    /\ heap[limiter[t]].tokens_ = 0

\* C13: a thread that is waiting for a mutex, the registry's or a bucket's,
\* waits only for a thread that is working on the same key.
NoCrossKeyContention ==
  \A t \in Threads :
    /\ (pc[t] \in {"resolve", "configure"} /\ mutex_ # NoThread)
         => req[mutex_].key = req[t].key
    /\ (pc[t] \in {"allow", "tokens", "log"} /\ heap[limiter[t]].mutex_ # NoThread)
         => req[heap[limiter[t]].mutex_].key = req[t].key

\* C14: during an interval in which no decide is allowed and nothing is
\* configured, whatever describes and rejected decides run, every describe
\* reports min(capacity, tokens_before + elapsed * refill_rate) for the tokens
\* at the start of the interval, and no step lowers a bucket's tokens or
\* lifts them above the capacity.
RefillConservation ==
  [][/\ \A t \in Threads :
          GetTokensStep(t) =>
            LET b == limiter[t]
                elapsed_ms == now - QuietHeap[b].last_refill_
            IN resp'[t].tokens_remaining =
                 Min(heap[b].bucket_capacity_,
                     QuietHeap[b].tokens_ + elapsed_ms * heap[b].refill_rate_)
     /\ \A b \in Live :
          /\ heap'[b].tokens_ >= heap[b].tokens_
          /\ heap'[b].tokens_ <= heap[b].bucket_capacity_]_vars

\* Two describes of flag_write, which held 46 tokens at the start: one
\* reported at 333 ms, the other has just reported 46 + 0.666 * 5 tokens at
\* 666 ms; in between, at 333 ms, a decide was rejected on k1 with 0.999
\* tokens there.
RefillConservationWitness ==
  \E t \in Threads, u \in Threads :
    /\ now = 666
    /\ pc[t] = "last_refill" /\ req[t].key = "flag_write"
    /\ resp[t].tokens_remaining = 49330
    /\ pc[u] = "log" /\ req[u].key = "flag_write"
    /\ resp[u].tokens_remaining = 47665
    /\ obs[3].reject.at = 333 /\ obs[3].reject.remaining = 999

\* Thread t holds a bucket that a Configure has since replaced in the map.
Stale(t) == limiter[t] # NoBucket /\ limiter[t] # rate_limiters_[req[t].key]

\* C15: a resolve returns the bucket the map holds for the key, so after a
\* configure of the key the bucket that configure made; a bucket a thread
\* holds stays alive; and a thread that holds a replaced bucket works on that
\* bucket only: its steps leave the map and the key's new bucket as they are
\* and its answers are read off the old bucket.
SharedOwnership ==
  [][\A t \in Threads :
       /\ ResolveStep(t) =>
            /\ limiter'[t] = rate_limiters_'[req[t].key]
            /\ (/\ rate_limiters_[req[t].key] # NoBucket
                /\ obs[rate_limiters_[req[t].key]].origin = "configure") =>
                 limiter'[t] = rate_limiters_[req[t].key]
       /\ limiter'[t] # NoBucket => heap'[limiter'[t]].live
       /\ (Stale(t) /\ pc'[t] # pc[t]) =>
            /\ heap'[rate_limiters_[req[t].key]] = heap[rate_limiters_[req[t].key]]
            /\ rate_limiters_' = rate_limiters_
            /\ pc'[t] # "idle" => limiter'[t] = limiter[t]
       /\ (Stale(t) /\ AllowStep(t)) =>
            /\ heap'[limiter[t]].tokens_ =
                 allow(heap[limiter[t]], req[t].token_cost, now).bucket.tokens_
            /\ resp'[t].quota_remaining = heap'[limiter[t]].tokens_
       /\ (Stale(t) /\ GetTokensStep(t)) =>
            resp'[t].tokens_remaining = heap'[limiter[t]].tokens_]_vars

\* A decide resolved the seeded bucket of flag_write, a configure then
\* replaced it at clock reading 0, and 333 ms or more later the decide took
\* its token from the old bucket: the new one is still full and untouched.
SharedOwnershipWitness ==
  \E t \in Threads :
    LET old == limiter[t]
        new == rate_limiters_["flag_write"]
    IN /\ now > 0
       /\ pc[t] = "done" /\ req[t].op = "Allow" /\ req[t].key = "flag_write"
       /\ Stale(t)
       /\ obs[old].origin = "seed" /\ heap[old].last_refill_ = now
       /\ resp[t].allowed /\ resp[t].quota_remaining = heap[old].tokens_
       /\ heap[old].tokens_ < heap[old].bucket_capacity_
       /\ obs[new].origin = "configure" /\ obs[new].born = 0
       /\ heap[new].last_refill_ = 0
       /\ heap[new].tokens_ = heap[new].bucket_capacity_

\* C16: when a describe reads the last-refill instant, no other thread is
\* inside a locked operation on the bucket, the tokens it has already put in
\* its answer are still the bucket's tokens, and the time it reports is the
\* time since the bucket's last refill.
SnapshotAtomic ==
  [][\A t \in Threads :
       GetLastRefillStep(t) =>
         LET b == limiter[t]
         IN /\ heap[b].mutex_ \in {NoThread, t}
            /\ resp[t].tokens_remaining = heap[b].tokens_
            /\ resp'[t].last_refill_time_ms = now - heap[b].last_refill_]_vars

\* C17: the thread that holds the registry mutex is inside the map lookup,
\* insert or replacement, never at a bucket's mutex; the thread that holds a
\* bucket's mutex is inside that bucket's operation, never at the registry
\* mutex; and on fairly scheduled threads every call that has started
\* returns.
CallsComplete ==
  /\ [](\A t \in Threads :
          /\ mutex_ = t => pc[t] \in {"resolving", "configuring"}
          /\ \A b \in Live :
               heap[b].mutex_ = t =>
                 /\ pc[t] \in {"allowing", "tokens_locked", "log_locked"}
                 /\ limiter[t] = b)
  /\ \A t \in Threads : (pc[t] # "idle") ~> (pc[t] = "idle")

\* A describe waits for the mutex of the bucket another thread is consuming
\* from while a third call's thread is not there: the registry mutex is free.
CallsCompleteWitness ==
  \E t \in Threads, u \in Threads :
    /\ pc[t] = "log" /\ pc[u] = "allowing"
    /\ limiter[t] = limiter[u]
    /\ heap[limiter[t]].mutex_ = u
    /\ mutex_ = NoThread
    /\ calls = MaxCalls

\* C18: every bucket the map holds has refill_rate > 0 and capacity > 0, and
\* a bucket's refill_rate and capacity are the ones it was made with.
PositiveParameters ==
  \A k \in Keys :
    LET b == rate_limiters_[k] IN
    b # NoBucket =>
      /\ Greater(heap[b].refill_rate_, 0)
      /\ Greater(heap[b].bucket_capacity_, 0)
      /\ heap[b].refill_rate_ = obs[b].rate
      /\ heap[b].bucket_capacity_ = obs[b].cap * MsPerSec

\* C19: a step of a decide, describe or configure of key A leaves every
\* other key mapped to the bucket it was mapped to, leaves every bucket made
\* for another key as it was (tokens, last refill, mutex), and leaves every
\* key that had an entry with an entry.
KeyIsolation ==
  [][\A t \in Threads :
       pc'[t] # pc[t] =>
         LET A == IF pc[t] = "idle" THEN req'[t].key ELSE req[t].key
         IN /\ \A B \in Keys \ {A} : rate_limiters_'[B] = rate_limiters_[B]
            /\ \A b \in Live : obs[b].key # A => heap'[b] = heap[b]
            /\ \A k \in Keys :
                 rate_limiters_[k] # NoBucket => rate_limiters_'[k] # NoBucket]_vars

\* A configure of k1 has succeeded while flag_write holds the seeded bucket
\* it held before, with the 48 tokens and the last refill at 333 ms or later
\* that a decide left there.
KeyIsolationWitness ==
  \E t \in Threads :
    /\ pc[t] = "done" /\ req[t].op = "Configure" /\ req[t].key = "k1"
    /\ resp[t].success
    /\ obs[rate_limiters_["k1"]].origin = "configure"
    /\ obs[rate_limiters_["k1"]].born = now
    /\ rate_limiters_["flag_write"] = 2
    /\ heap[2].tokens_ = 48 * MsPerSec
    /\ heap[2].last_refill_ > 0
    /\ now = heap[2].last_refill_

\* C20: a decide that asks for more tokens than its bucket's capacity is
\* rejected whatever time has passed since the bucket was last refilled; the
\* bucket is left with its post-refill tokens, which the answer reports, and
\* retry_after_ms is a number between 0 and the time the whole cost takes to
\* refill.
OverCapacityRejected ==
  [][\A t \in Threads :
       (AllowStep(t)
          /\ req[t].token_cost * MsPerSec > heap[limiter[t]].bucket_capacity_) =>
         LET bk == heap[limiter[t]]
         IN /\ ~resp'[t].allowed
            /\ heap'[limiter[t]].tokens_ = PostRefill(bk)
            /\ resp'[t].quota_remaining = PostRefill(bk)
            /\ resp'[t].retry_after_ms >= 0
            /\ resp'[t].retry_after_ms * bk.refill_rate_
                 <= req[t].token_cost * MsPerSec]_vars

\* A decide of cost 2 was rejected on a full bucket of capacity 1 and rate 3
\* that had last been refilled 334 ms earlier, time enough for one more
\* token had there been room for it.
OverCapacityRejectedWitness ==
  \E t \in Threads :
    /\ pc[t] = "done" /\ req[t].op = "Allow" /\ req[t].cost = 2
    /\ ~resp[t].allowed
    /\ heap[limiter[t]].bucket_capacity_ = MsPerSec
    /\ heap[limiter[t]].refill_rate_ = 3
    /\ obs[limiter[t]].born = 0 /\ now = 334
    /\ resp[t].quota_remaining = MsPerSec
    /\ resp[t].retry_after_ms = 333

====
